---- MODULE Spec2Model ----
(***************************************************************************)
(* Model of the OTP watcher of bot.py: auto_check_otp, the registry        *)
(* active_checks it shares between threads, the status query               *)
(* (check_order through safe_api_call) and the notifier (bot.send_message).*)
(* Every thread that runs auto_check_otp is a call slot; the only state    *)
(* the calls share is active_checks.  The steps of one call that touch     *)
(* active_checks (the membership test, the insertion, the pop in finally)  *)
(* are separate actions; one round of the for loop (sleep, query,          *)
(* classification, notices) is one action, since it touches nothing shared.*)
(***************************************************************************)
EXTENDS Integers, Sequences, FiniteSets

\* ------------------------------------------------------------------ bounds
\* Number of threads that call auto_check_otp.
MaxCalls == 2

Calls == 1..MaxCalls

\* Arguments of auto_check_otp: message.chat.id and the vendor's order id,
\* the latter written as the key's f-string formats it.
ChatIds == {7}
OrderIds == {"101", "102"}

\* ------------------------------------------------------- program constants
\* intervals = [5, 5, 7, 7, 10, 10, 15, 15]
intervals == <<5, 5, 7, 7, 10, 10, 15, 15>>

\* Python's None, and a key that a dict does not hold.
None == "None"
Absent == "absent"

Codes == {"1234", "5678"}
Phones == {"+1555"}

\* ----------------------------------------------------------- status query
\* What check_order returns.  safe_api_call turns every exception of the
\* request into {"status": 0, "message": ...}; otherwise the value is
\* response.json(), any JSON value.  isdict: the value is a JSON object;
\* status: result.get("status"); data: "dict", None (JSON null) or Absent;
\* code, phone: data.get("code"), data.get("phone").  report is what the
\* vendor means by the response; the code never reads it.
Result(isdict, status, data, code, phone, report) ==
    [isdict |-> isdict, status |-> status, data |-> data,
     code |-> code, phone |-> phone, report |-> report]

\* What the request of api_call can raise: the exception class and, of an
\* HTTPError, the status code of the response.  RetryError is what the
\* session's retry adapter raises when its retries are used up, and
\* JSONDecodeError what response.json() raises on a body that is not JSON.
RequestFailures ==
    {[exc |-> "Timeout", code |-> 0], [exc |-> "ConnectionError", code |-> 0],
     [exc |-> "HTTPError", code |-> 429], [exc |-> "HTTPError", code |-> 503],
     [exc |-> "HTTPError", code |-> 404], [exc |-> "RetryError", code |-> 0],
     [exc |-> "JSONDecodeError", code |-> 0]}

\* The place of a return value in a call that raised.
NoValue == Result(FALSE, 2, Absent, None, Absent, "raised")

\* How the undecorated api_call ends: it returns response.json(), or the
\* request, raise_for_status or json raises.
Returned(value) == [raises |-> None, code |-> 0, value |-> value]
Failed(x) == [raises |-> x.exc, code |-> x.code, value |-> NoValue]

\* {"status": 0, "message": ERRORS[key]}
ErrorResult(key) ==
    [isdict |-> TRUE, status |-> 0, data |-> Absent, code |-> None,
     phone |-> Absent, report |-> "transient_error", message |-> key]

\* Variant of the decorator below without its last clause: an exception
\* that is no Timeout, ConnectionError or HTTPError leaves the call.
SafeApiCallRequestsOnly(raw) ==
    IF raw.raises = None THEN [raised |-> None, value |-> raw.value]
    ELSE IF raw.raises = "Timeout"
    THEN [raised |-> None, value |-> ErrorResult("timeout")]
    ELSE IF raw.raises = "ConnectionError"
    THEN [raised |-> None, value |-> ErrorResult("connection")]
    ELSE IF raw.raises = "HTTPError"
    THEN [raised |-> None,
          value |-> IF raw.code = 429 THEN ErrorResult("rate_limit")
                    ELSE IF raw.code >= 500 THEN ErrorResult("server_error")
                    ELSE ErrorResult("http_error")]
    ELSE [raised |-> raw.raises, value |-> NoValue]

\* The decorator safe_api_call: the wrapped call's value, or, clause by
\* clause, the status-0 result of its exception.  The last clause also
\* hands the error to notify_admin, which messages the administrator from
\* a thread of its own.
SafeApiCall(raw) ==
    IF raw.raises = None THEN [raised |-> None, value |-> raw.value]
    ELSE IF raw.raises = "Timeout"
    THEN [raised |-> None, value |-> ErrorResult("timeout")]
    ELSE IF raw.raises = "ConnectionError"
    THEN [raised |-> None, value |-> ErrorResult("connection")]
    ELSE IF raw.raises = "HTTPError"
    THEN [raised |-> None,
          value |-> IF raw.code = 429 THEN ErrorResult("rate_limit")
                    ELSE IF raw.code >= 500 THEN ErrorResult("server_error")
                    ELSE ErrorResult("http_error")]
    ELSE [raised |-> None, value |-> ErrorResult("unknown")]

\* check_order(order_id): api_call("ordercheck", ...) under the decorator.
CheckOrder(raw) == SafeApiCall(raw)

\* The results of the status queries that failed.
TransientErrors == {CheckOrder(Failed(x)).value : x \in RequestFailures}

\* In the vendor's responses below a status other than 0 and 1 is written
\* -1 or 2 (a missing status field reads as None, which is neither 0 nor 1
\* either).

\* An order the vendor reports cancelled, expired or not found: a failure
\* status with a message, or a status of its own.
TerminalNegatives ==
    {Result(TRUE, s, Absent, None, Absent, "terminal_negative") : s \in {0, -1}}

Pendings ==
    {Result(TRUE, 1, "dict", c, p, "pending") : c \in {None, ""}, p \in Phones}
    \cup {Result(TRUE, 1, Absent, None, Absent, "pending")}

CodeReadys ==
    {Result(TRUE, 1, "dict", c, p, "code_ready") :
        c \in Codes, p \in Phones \cup {Absent}}

Unexpecteds ==
    {Result(FALSE, 2, Absent, None, Absent, "unexpected"),
     Result(TRUE, 1, None, None, Absent, "unexpected"),
     Result(TRUE, 2, Absent, None, Absent, "unexpected")}

\* How the request of one status query can end.
ApiOutcomes ==
    {Failed(x) : x \in RequestFailures}
    \cup {Returned(v) : v \in TerminalNegatives \cup Pendings \cup CodeReadys
                                \cup Unexpecteds}

\* ------------------------------------------------------------------ state
VARIABLES
    active_checks,  \* keys of the dict active_checks
    pc,             \* where each call stands
    check_key,      \* each call's check_key
    frame,          \* each call's local variables and what it has done
    outcome,        \* how each call ended
    trace,          \* the responses each call has received, in order
    tracing,        \* whether the responses are recorded
    user_orders,    \* the defaultdict user_orders: chat id to order id
    orders          \* per order id: the vendor created it, threads started

vars == <<active_checks, pc, check_key, frame, outcome, trace, tracing, user_orders, orders>>

\* check_key = f"{chat_id}_{order_id}"
CheckKey(chat_id, order_id) == <<chat_id, "_", order_id>>

NoSent == [slow |-> 0, manual |-> 0, success |-> 0, timeout |-> 0]

\* The locals at the start of the try block, and the record of what the
\* call has done: queries issued, seconds slept, notices handed to
\* bot.send_message (sent, and msg: the code and phone of the success
\* notice), errors logged, the exception in flight (exc) and the one the
\* except clause caught, and how the loop ended (exit: "code", "ceiling",
\* "exhausted", or "raised" for an exception in a round).
NewFrame ==
    [idx |-> 0, error_count |-> 0, notified |-> FALSE,
     queries |-> 0, slept |-> 0, wait |-> 0, rested |-> FALSE,
     preceded |-> 0, sent |-> NoSent, msg |-> <<>>,
     failed |-> 0, logged |-> 0, exc |-> None, caught |-> None,
     next |-> "continue", exit |-> "none"]

NoKey == <<>>

\* ------------------------------------------------------------ the notifier
\* Variant of the call below inside a try/except of its own: a failure of
\* the notifier is passed over and the loop goes on.
SendBestEffort(f, kind, ok) ==
    [f EXCEPT !.sent[kind] = @ + 1,
              !.failed = IF ok THEN @ ELSE @ + 1]

\* bot.send_message(chat_id, text): one more notice of that kind handed to
\* the notifier; when the notifier fails (ok is FALSE) it raises.
Send(f, kind, ok) ==
    [f EXCEPT !.sent[kind] = @ + 1,
              !.failed = IF ok THEN @ ELSE @ + 1,
              !.exc = IF ok THEN @ ELSE "ApiException",
              !.next = IF ok THEN @ ELSE "raise"]

Raise(f, e) == [f EXCEPT !.exc = e, !.next = "raise"]

\* The loop is left by an exception of one of its rounds.
RaisedInRound(f) == IF f.next = "raise" THEN [f EXCEPT !.exit = "raised"] ELSE f

Raised(f) == f.next = "raise"

\* ------------------------------------------------------- the loop's tests
\* if result.get("status") == 0
IsError(result) == result.status = 0

\* Variants of the test below: the notice on the first failure, and the
\* notice without the flag.
SlowNoticeOnFirst(error_count, notified) == error_count = 1 /\ ~notified

SlowNoticeEveryBurst(error_count, notified) == error_count = 2

\* if error_count == 2 and not notified
SlowNoticeDue(error_count, notified) == error_count = 2 /\ ~notified

\* Variant of the test below: the ceiling one failure late.
CeilingOffByOne(error_count) == error_count > 4

\* if error_count >= 4
CeilingReached(error_count) == error_count >= 4

\* Variant of the reset below: the counter kept.
KeepCount(error_count) == error_count

\* error_count = 0
AfterNonError(error_count) == 0

\* if otp: a value that is neither None nor the empty string
Truthy(v) == v \notin {None, ""}

\* data = result.get("data", {}); otp = data.get("code")
Otp(result) == IF result.data = Absent THEN None ELSE result.code

\* data.get('phone', 'N/A')
PhoneText(result) ==
    IF result.data = Absent \/ result.phone = Absent THEN "N/A" ELSE result.phone

\* ---------------------------------------------------------- the loop body
\* The branch of a status-0 result: count it, send the slow notice when it
\* is due, abort with the "check manually" notice at the ceiling.
OnError(f, ok) ==
    LET f1 == [f EXCEPT !.error_count = @ + 1]
        f2 == IF SlowNoticeDue(f1.error_count, f1.notified)
              THEN LET s == Send(f1, "slow", ok)
                   IN  IF Raised(s) THEN s ELSE [s EXCEPT !.notified = TRUE]
              ELSE f1
    IN  IF Raised(f2) THEN f2
        ELSE IF CeilingReached(f2.error_count)
        THEN LET s == Send(f2, "manual", ok)
             IN  IF Raised(s) THEN s
                 ELSE [s EXCEPT !.next = "break", !.exit = "ceiling"]
        ELSE f2

\* Variant of the branch below: no break after the success notice.
OnNonErrorNoBreak(f, result, ok) ==
    LET f1 == [f EXCEPT !.error_count = 0]
    IN  IF result.status = 1
        THEN IF result.data = None
             THEN Raise(f1, "AttributeError")
             ELSE IF Truthy(Otp(result))
             THEN Send([f1 EXCEPT !.msg = <<Otp(result), PhoneText(result)>>],
                       "success", ok)
             ELSE f1
        ELSE f1

\* The branch of any other result: reset the counter, and on status 1 with
\* a code send the success notice and leave the loop.
OnNonError(f, result, ok) ==
    LET f1 == [f EXCEPT !.error_count = AfterNonError(@)]
    IN  IF result.status = 1
        THEN IF result.data = None
             THEN Raise(f1, "AttributeError")
             ELSE IF Truthy(Otp(result))
             THEN LET s == Send([f1 EXCEPT !.msg = <<Otp(result), PhoneText(result)>>],
                                "success", ok)
                  IN  IF Raised(s) THEN s
                      ELSE [s EXCEPT !.next = "break", !.exit = "code"]
             ELSE f1
        ELSE f1

\* Variant of the suspension below: the first round queries at once.
SleepSkipFirst(f) ==
    IF f.idx = 0 THEN f
    ELSE [f EXCEPT !.wait = intervals[f.idx + 1],
                   !.slept = @ + intervals[f.idx + 1],
                   !.rested = TRUE]

\* for idx, wait in enumerate(intervals): time.sleep(wait)
Sleep(f) ==
    [f EXCEPT !.wait = intervals[f.idx + 1],
              !.slept = @ + intervals[f.idx + 1],
              !.rested = TRUE]

\* result = check_order(order_id): one more status query; `preceded` keeps
\* the seconds of the suspension that ended immediately before it.
QueryIssued(f) ==
    [f EXCEPT !.queries = @ + 1,
              !.preceded = IF f.rested THEN f.wait ELSE 0,
              !.rested = FALSE]

\* One round of `for idx, wait in enumerate(intervals)`:
\* time.sleep(wait); result = check_order(order_id); the classification.
Body(f, result, ok) ==
    LET f0 == QueryIssued(Sleep(f))
    IN  RaisedInRound(
            IF ~result.isdict THEN Raise(f0, "AttributeError")
            ELSE IF IsError(result) THEN OnError(f0, ok)
            ELSE OnNonError(f0, result, ok))

\* Variant of the except clause below: only the notifier's exception.
CatchesApiOnly(e) == e \in {"ApiException"}

\* except Exception as e: logger.error(...).  Both exceptions the body can
\* raise derive from Exception, and so does every exception of a request.
Catches(e) ==
    e \in {"AttributeError", "ApiException"}
           \cup {x.exc : x \in RequestFailures}

Except(f) ==
    IF Catches(f.exc)
    THEN [f EXCEPT !.logged = @ + 1, !.caught = f.exc, !.exc = None]
    ELSE f

\* Variant of the else clause below: the loop ends without the notice.
ForElseSilent(f, ok) == [f EXCEPT !.exit = "exhausted", !.next = "break"]

\* The else clause of the for loop: the "timed out" notice.
ForElse(f, ok) ==
    LET s == Send([f EXCEPT !.exit = "exhausted"], "timeout", ok)
    IN  IF Raised(s) THEN s ELSE [s EXCEPT !.next = "break"]

\* Variant of the pop below: active_checks.clear().
PopAll(checks, key) == {}

\* Variant of the pop below: the key left in place.
PopNothing(checks, key) == checks

\* active_checks.pop(check_key, None)
Pop(checks, key) == checks \ {key}

\* Variant of the early return below: the return placed inside the try
\* block, so that finally pops the key.
DuplicatePops(checks, key) == checks \ {key}

\* if check_key in active_checks: return  -- before the try block, so the
\* finally clause does not run and the dict is left as it is.
OnDuplicate(checks, key) == checks

\* What the record of responses keeps of one response: the vendor's
\* report, whether it is a JSON object, its status and, of a code-ready
\* response, the code and the phone.
Token(result) ==
    IF result.report = "code_ready" THEN result
    ELSE Result(result.isdict, result.status, Absent, None, Absent, result.report)

Start0 ==
    /\ active_checks = {}
    /\ pc = [c \in Calls |-> "idle"]
    /\ check_key = [c \in Calls |-> NoKey]
    /\ frame = [c \in Calls |-> NewFrame]
    /\ outcome = [c \in Calls |-> "none"]
    /\ trace = [c \in Calls |-> <<>>]
    /\ user_orders = [chat_id \in ChatIds |-> None]
    /\ orders = [o \in OrderIds |-> [created |-> FALSE, started |-> 0]]

\* The process after import: no watch is running.
Init == Start0 /\ tracing = FALSE

\* The same, with every response recorded.
InitTrace == Start0 /\ tracing = TRUE

\* ---------------------------------------------------------------- actions
\* A thread calls auto_check_otp(chat_id, order_id) and evaluates
\* `check_key in active_checks`: it returns when the key is there, and
\* otherwise stands before the insertion.
Admission(c, key) ==
    /\ check_key' = [check_key EXCEPT ![c] = key]
    /\ IF key \in active_checks
       THEN /\ pc' = [pc EXCEPT ![c] = "returned"]
            /\ outcome' = [outcome EXCEPT ![c] = "duplicate"]
            /\ active_checks' = OnDuplicate(active_checks, key)
       ELSE /\ pc' = [pc EXCEPT ![c] = "admitted"]
            /\ UNCHANGED <<outcome, active_checks>>
    /\ UNCHANGED <<frame, trace, tracing, user_orders, orders>>

Start(c) ==
    /\ pc[c] = "idle"
    /\ \E chat_id \in ChatIds, order_id \in OrderIds :
          Admission(c, CheckKey(chat_id, order_id))

\* The same step of a thread that process_create_order has started.
Enter(c) ==
    /\ pc[c] = "started"
    /\ Admission(c, check_key[c])

\* active_checks[check_key] = True, then the locals of the try block.
Insert(c) ==
    /\ pc[c] = "admitted"
    /\ active_checks' = active_checks \cup {check_key[c]}
    /\ frame' = [frame EXCEPT ![c] = NewFrame]
    /\ pc' = [pc EXCEPT ![c] = "loop"]
    /\ UNCHANGED <<check_key, outcome, trace, tracing, user_orders, orders>>

\* Variant of the loop's advance below: `continue` takes the same interval
\* again (a while loop that forgets to advance).
LeaveStays(c, g) ==
    IF g.next = "continue"
    THEN /\ frame' = [frame EXCEPT ![c] = g]
         /\ pc' = [pc EXCEPT ![c] = "loop"]
    ELSE /\ frame' = [frame EXCEPT ![c] = IF Raised(g) THEN Except(g) ELSE g]
         /\ pc' = [pc EXCEPT ![c] = "finally"]

\* Where the call goes after a round or the else clause.
Leave(c, g) ==
    IF g.next = "continue"
    THEN /\ frame' = [frame EXCEPT ![c] = [g EXCEPT !.idx = @ + 1]]
         /\ pc' = [pc EXCEPT ![c] = "loop"]
    ELSE /\ frame' = [frame EXCEPT ![c] = IF Raised(g) THEN Except(g) ELSE g]
         /\ pc' = [pc EXCEPT ![c] = "finally"]

\* One round of the loop in which check_order returns result and the
\* notifier, if called, succeeds (ok) or raises.
Round(c, result, ok) ==
    /\ pc[c] = "loop"
    /\ frame[c].idx < Len(intervals)
    /\ Leave(c, Body(frame[c], result, ok))
    /\ trace' = IF tracing
                THEN [trace EXCEPT ![c] = Append(@, Token(result))]
                ELSE trace
    /\ UNCHANGED <<active_checks, check_key, outcome, tracing, user_orders, orders>>

\* One round of the loop in which check_order itself raises e.
RoundRaised(c, e) ==
    /\ pc[c] = "loop"
    /\ frame[c].idx < Len(intervals)
    /\ Leave(c, RaisedInRound(Raise(QueryIssued(Sleep(frame[c])), e)))
    /\ trace' = IF tracing
                THEN [trace EXCEPT ![c] = Append(@, Token(NoValue))]
                ELSE trace
    /\ UNCHANGED <<active_checks, check_key, outcome, tracing, user_orders, orders>>

\* One round of the loop in which the request of check_order ends as raw.
Poll(c, raw, ok) ==
    LET q == CheckOrder(raw)
    IN  IF q.raised = None THEN Round(c, q.value, ok)
        ELSE RoundRaised(c, q.raised)

Iterate(c) == \E raw \in ApiOutcomes, ok \in BOOLEAN : Poll(c, raw, ok)

\* The loop ran out of intervals: the else clause.
Exhaust(c) ==
    /\ pc[c] = "loop"
    /\ frame[c].idx = Len(intervals)
    /\ \E ok \in BOOLEAN : Leave(c, ForElse(frame[c], ok))
    /\ UNCHANGED <<active_checks, check_key, outcome, trace, tracing, user_orders, orders>>

\* finally: active_checks.pop(check_key, None); the call returns, or the
\* exception no except clause caught leaves it.
Finally(c) ==
    /\ pc[c] = "finally"
    /\ active_checks' = Pop(active_checks, check_key[c])
    /\ pc' = [pc EXCEPT ![c] = IF frame[c].exc = None THEN "returned" ELSE "crashed"]
    /\ outcome' = [outcome EXCEPT ![c] =
                      IF frame[c].caught # None THEN "fault" ELSE frame[c].exit]
    /\ frame' = [frame EXCEPT ![c] = NewFrame]
    /\ trace' = [trace EXCEPT ![c] = <<>>]
    /\ UNCHANGED <<check_key, tracing, user_orders, orders>>

Next ==
    \E c \in Calls :
        \/ Start(c)
        \/ Insert(c)
        \/ Iterate(c)
        \/ Exhaust(c)
        \/ Finally(c)

\* Any number of threads (up to MaxCalls) run auto_check_otp concurrently.
Spec == Init /\ [][Next]_vars

\* The steps of an admitted call.  Each is a step of the call's own thread
\* (a sleep, a query with its 10 s timeout, a send, the pop), so a thread
\* that the scheduler keeps running takes it.
Progress(c) == Insert(c) \/ Iterate(c) \/ Exhaust(c) \/ Finally(c)


\* One thread runs auto_check_otp alone, its responses recorded: the
\* specification of what one watch does with a sequence of query results.
Watcher == CHOOSE c \in Calls : \A d \in Calls : c <= d

\* The responses of the recorded watch: the kinds of the status query
\* (transient error, pending, code ready, order dead) and the shapes on
\* which the body raises.
WatchResults ==
    {raw \in ApiOutcomes :
        \/ raw.raises # None
        \/ raw.value \in TerminalNegatives \cup Pendings \cup CodeReadys
        \/ raw.value \in {r \in Unexpecteds : ~r.isdict \/ r.data = None}}

IterateWatch ==
    \E raw \in WatchResults, ok \in BOOLEAN : Poll(Watcher, raw, ok)

NextWatch ==
    \/ Start(Watcher)
    \/ Insert(Watcher)
    \/ IterateWatch
    \/ Exhaust(Watcher)
    \/ Finally(Watcher)

SpecTrace == InitTrace /\ [][NextWatch]_vars

\* One thread runs auto_check_otp alone with every outcome of the status
\* query, and the scheduler keeps it running.
NextOne ==
    \/ Start(Watcher)
    \/ Insert(Watcher)
    \/ Iterate(Watcher)
    \/ Exhaust(Watcher)
    \/ Finally(Watcher)

SpecLive == Init /\ [][NextOne]_vars /\ WF_vars(Progress(Watcher))

\* The watch whose status queries fail or return a response of a shape the
\* vendor's protocol does not have, or in the end the code.
ShapeResults ==
    {raw \in ApiOutcomes :
        raw.raises # None \/ raw.value \in Unexpecteds \cup CodeReadys}

IterateShapes ==
    \E raw \in ShapeResults, ok \in BOOLEAN : Poll(Watcher, raw, ok)

NextShapes ==
    \/ Start(Watcher)
    \/ Insert(Watcher)
    \/ IterateShapes
    \/ Exhaust(Watcher)
    \/ Finally(Watcher)

SpecShapes == InitTrace /\ [][NextShapes]_vars

\* ------------------------------------------------------ order creation
\* message.text of the message process_create_order is handed: no text
\* (None), only blanks, a first word that is no number, a service id.
Texts == {"none", "blank", "word", "number"}

\* What create_order returns from the vendor: a JSON object with status and,
\* when the order was created, its id; or a JSON value that is no object.
CreateResult(isdict, status, id) ==
    [isdict |-> isdict, status |-> status, id |-> id]

\* How the request of create_order can end; the vendor numbers a new order
\* with an id it has not used.
CreateOutcomes ==
    {Failed(x) : x \in RequestFailures}
    \cup {Returned(CreateResult(TRUE, 1, o)) :
            o \in {i \in OrderIds : ~orders[i].created}}
    \cup {Returned(CreateResult(TRUE, 0, None)),
          Returned(CreateResult(FALSE, 2, None))}

\* create_order(...): api_call("orderv2", ...) under the decorator.
CreateOrder(raw) == SafeApiCall(raw)

\* threading.Thread(target=auto_check_otp, args=(chat_id, order_id)).start()
ThreadStart(c, chat_id, order_id) ==
    /\ pc' = [pc EXCEPT ![c] = "started"]
    /\ check_key' = [check_key EXCEPT ![c] = CheckKey(chat_id, order_id)]
    /\ orders' = [orders EXCEPT ![order_id] =
                     [created |-> TRUE, started |-> @.started + 1]]

\* The handler process_create_order for a message of chat_id, from its
\* first line to the end of its finally clause.  shown: send_chat_action
\* and the loading reply return (else one of them raises); replied: the
\* reply with the success message returns (else it raises).  Every path
\* but that of status 1 replies, or fails to reply, and changes nothing.
ProcessCreateOrder(chat_id) ==
    /\ \E c \in Calls : pc[c] = "idle"
    /\ \E text \in Texts, shown \in BOOLEAN, raw \in CreateOutcomes,
          replied \in BOOLEAN :
          LET q == CreateOrder(raw)
              result == q.value
              asked == text = "number" /\ shown
              made == asked /\ raw.raises = None /\ raw.value.isdict
                      /\ raw.value.status = 1
              success == asked /\ q.raised = None /\ result.isdict
                         /\ result.status = 1
              c == CHOOSE i \in Calls :
                      pc[i] = "idle" /\ \A j \in Calls : pc[j] = "idle" => i <= j
          IN  IF success
              THEN /\ user_orders' = [user_orders EXCEPT ![chat_id] = result.id]
                   /\ IF replied
                      THEN ThreadStart(c, chat_id, result.id)
                      ELSE /\ orders' = [orders EXCEPT ![result.id].created = TRUE]
                           /\ UNCHANGED <<pc, check_key>>
              ELSE /\ orders' = IF made
                                THEN [orders EXCEPT ![raw.value.id].created = TRUE]
                                ELSE orders
                   /\ UNCHANGED <<user_orders, pc, check_key>>
    /\ UNCHANGED <<active_checks, frame, outcome, trace, tracing>>

\* The handler creates orders, and the threads it starts run the watches.
NextOrders ==
    \/ \E chat_id \in ChatIds : ProcessCreateOrder(chat_id)
    \/ \E c \in Calls :
          \/ Enter(c)
          \/ Insert(c)
          \/ Iterate(c)
          \/ Exhaust(c)
          \/ Finally(c)

SpecOrders == Init /\ [][NextOrders]_vars

\* ------------------------------------------------------------- properties
Total(sent) == sent.slow + sent.manual + sent.success + sent.timeout

\* The call is between its admission and its return.
Running(c) == pc[c] \in {"loop", "finally"}

\* The recorded response is a failure (status 0) / has another status.
IsErrorToken(t) == t.isdict /\ t.status = 0
IsNonErrorToken(t) == t.isdict /\ t.status # 0

\* C1: for every key, at most one polling loop is active at any time: of
\* two concurrent calls with the same key only one enters the loop.
C1_OneLoopPerKey ==
    \A c, d \in Calls :
        (c # d /\ pc[c] = "loop" /\ pc[d] = "loop") => check_key[c] # check_key[d]

\* C2: whichever way the loop of an admitted call ends, its key is absent
\* from active_checks once the call has returned; no key stays in
\* active_checks without a call that still runs, and a call is refused only
\* while its key is there, so a later call for the key is admitted.
C2_KeyReleased ==
    /\ [](\A k \in active_checks :
            \E c \in Calls : check_key[c] = k /\ Running(c))
    /\ [][\A c \in Calls :
            /\ (pc[c] = "finally" /\ pc'[c] # "finally")
                  => check_key[c] \notin active_checks'
            /\ (pc[c] = "idle" /\ pc'[c] = "returned")
                  => check_key'[c] \in active_checks
            /\ (pc[c] = "idle" /\ pc'[c] = "admitted")
                  => check_key'[c] \notin active_checks]_vars

\* C2 witness: a call whose loop ended by an exception has returned, and a
\* later call for the same key has been admitted and polls.
C2_Witness ==
    \E c, d \in Calls :
        /\ pc[c] = "returned" /\ outcome[c] = "fault"
        /\ pc[d] = "loop" /\ check_key[d] = check_key[c]
        /\ frame[d].queries > 0
        /\ check_key[d] \in active_checks

\* C3: no response follows a code-ready response, and the watch that has
\* received one has handed the notifier exactly one success notice, with
\* that response's code and phone, and neither of the closing notices.
C3_OneSuccessNotice ==
    \A c \in Calls :
        LET t == trace[c]
            f == frame[c]
            n == Len(t)
        IN  /\ \A i \in 1..n : t[i].report = "code_ready" => i = n
            /\ f.sent.success <= 1
            /\ (n > 0 /\ t[n].report = "code_ready") <=> f.sent.success = 1
            /\ f.sent.success = 1 =>
                  /\ pc[c] = "finally"
                  /\ f.queries = n
                  /\ f.msg = <<t[n].code,
                               IF t[n].phone = Absent THEN "N/A" ELSE t[n].phone>>
                  /\ f.sent.manual = 0 /\ f.sent.timeout = 0

\* C3 witness: pending four times, then code_ready("1234", "+1555").
C3_Witness ==
    LET p == Result(TRUE, 1, Absent, None, Absent, "pending")
    IN  /\ trace[Watcher] =
             <<p, p, p, p, Result(TRUE, 1, "dict", "1234", "+1555", "code_ready")>>
        /\ frame[Watcher].sent = [NoSent EXCEPT !.success = 1]
        /\ frame[Watcher].msg = <<"1234", "+1555">>
        /\ pc[Watcher] = "finally"

\* The reports of the recorded responses.
Reports(t) == [i \in 1..Len(t) |-> t[i].report]

\* The recorded responses hold k failures in a row, ending at position i.
ErrorRunAt(t, i, k) == i >= k /\ \A j \in (i - k + 1)..i : IsErrorToken(t[j])
HasErrorRun(t, k) == \E i \in 1..Len(t) : ErrorRunAt(t, i, k)

\* The failures received since the last response with another status (a
\* response that is no JSON object has no status and is passed over).
RECURSIVE ErrorsSinceNonError(_)
ErrorsSinceNonError(t) ==
    IF t = <<>> THEN 0
    ELSE LET last == t[Len(t)]
             front == SubSeq(t, 1, Len(t) - 1)
         IN  IF IsNonErrorToken(last) THEN 0
             ELSE IF IsErrorToken(last) THEN 1 + ErrorsSinceNonError(front)
             ELSE ErrorsSinceNonError(front)

Count(b) == IF b THEN 1 ELSE 0

\* C4 as claimed: the first transient-error response of a watch sends the
\* slow-connection notice and sets the flag; transient_error, pending,
\* code_ready gives one slow notice, one success notice, error_count 0.
C4_SlowOnFirstError ==
    \A c \in Calls :
        LET t == trace[c]
            f == frame[c]
        IN  /\ (pc[c] = "loop" /\ \E i \in 1..Len(t) : t[i].report = "transient_error")
                  => (f.notified /\ f.sent.slow = 1)
            /\ Reports(t) = <<"transient_error", "pending", "code_ready">>
                  => (f.sent.slow = 1 /\ f.sent.success = 1 /\ f.error_count = 0)

\* C4 as amended: the slow-connection notice is sent on the second failure
\* in a row (never on a first or lone one), once, and the flag is set when
\* the notifier returns; transient_error, pending, code_ready gives no slow
\* notice, one success notice and error_count 0 at the end.
C4_SlowOnSecondError ==
    \A c \in Calls :
        LET t == trace[c]
            f == frame[c]
        IN  /\ f.sent.slow = Count(HasErrorRun(t, 2))
            /\ pc[c] = "loop" => (f.notified <=> HasErrorRun(t, 2))
            /\ f.notified => f.sent.slow = 1
            /\ Reports(t) = <<"transient_error", "pending", "code_ready">>
                  => /\ pc[c] = "finally"
                     /\ f.sent = [NoSent EXCEPT !.success = 1]
                     /\ f.error_count = 0

\* C4 witness: the watch has received transient_error, pending, code_ready.
C4_Witness ==
    /\ Reports(trace[Watcher]) = <<"transient_error", "pending", "code_ready">>
    /\ frame[Watcher].sent.slow = 0
    /\ frame[Watcher].sent.success = 1
    /\ frame[Watcher].error_count = 0

\* C5: whatever the responses of a watch, it hands the notifier at most one
\* slow-connection notice and at most one "check manually" notice.
C5_AtMostOneOfEach ==
    \A c \in Calls : frame[c].sent.slow <= 1 /\ frame[c].sent.manual <= 1

\* C5 witness: two failures, a pending response, then four failures: two
\* bursts, one slow notice, one "check manually" notice.
C5_Witness ==
    /\ Reports(trace[Watcher]) =
          <<"transient_error", "transient_error", "pending", "transient_error",
            "transient_error", "transient_error", "transient_error">>
    /\ frame[Watcher].sent.slow = 1
    /\ frame[Watcher].sent.manual = 1

\* C6: the fourth failure in a row ends the watch at that query: no
\* response follows it, one "check manually" notice has been handed over,
\* the loop variable stays at that round, and there is neither a "timed
\* out" nor a success notice.
C6_CeilingAborts ==
    \A c \in Calls :
        LET t == trace[c]
            f == frame[c]
            n == Len(t)
        IN  /\ \A i \in 1..n : ErrorRunAt(t, i, 4) => i = n
            /\ ErrorRunAt(t, n, 4) =>
                  /\ pc[c] = "finally"
                  /\ f.error_count = 4
                  /\ f.sent.manual = 1
                  /\ f.sent.timeout = 0 /\ f.sent.success = 0
                  /\ f.queries = n /\ f.idx = n - 1
            /\ f.exit = "ceiling" <=> (ErrorRunAt(t, n, 4) /\ f.caught = None)

\* C6 witness: four transient errors from the start.
C6_Witness ==
    /\ Reports(trace[Watcher]) =
          <<"transient_error", "transient_error", "transient_error", "transient_error">>
    /\ frame[Watcher].sent.manual = 1
    /\ frame[Watcher].sent.timeout = 0
    /\ frame[Watcher].queries = 4
    /\ pc[Watcher] = "finally"

\* C7: the "timed out" notice is handed over at most once, only after the
\* last query of the schedule has been answered, and with no success
\* notice; a watch whose loop ran out of intervals (no code, no ceiling, no
\* exception in a round) has handed it over, and a watch that got only
\* pending responses ends in no other way.
C7_TimedOut ==
    \A c \in Calls :
        LET t == trace[c]
            f == frame[c]
            n == Len(t)
            nocode == \A i \in 1..n : t[i].report # "code_ready"
        IN  /\ f.sent.timeout <= 1
            /\ f.sent.timeout = 1 =>
                  /\ pc[c] = "finally"
                  /\ n = Len(intervals) /\ f.queries = Len(intervals)
                  /\ nocode /\ ~HasErrorRun(t, 4)
                  /\ f.sent.success = 0 /\ f.sent.manual = 0
            /\ (pc[c] = "finally" /\ n = Len(intervals) /\ nocode
                  /\ ~HasErrorRun(t, 4) /\ f.exit # "raised")
                  => (f.exit = "exhausted" /\ f.sent.timeout = 1)
            /\ (pc[c] = "finally" /\ \A i \in 1..n : t[i].report = "pending")
                  => (n = Len(intervals) /\ f.sent.timeout = 1 /\ f.sent.success = 0)

\* C7 witness: every query of the schedule answered pending.
C7_Witness ==
    /\ Len(trace[Watcher]) = Len(intervals)
    /\ \A i \in 1..Len(trace[Watcher]) : trace[Watcher][i].report = "pending"
    /\ frame[Watcher].sent = [NoSent EXCEPT !.timeout = 1]
    /\ pc[Watcher] = "finally"

\* C8: a response that reports the order cancelled, expired or not found
\* is the last one of its watch, which ends there with a notice to the
\* requester: no further status query follows.
C8_TerminalNegativeStops ==
    \A c \in Calls :
        LET t == trace[c]
        IN  \A i \in 1..Len(t) :
                t[i].report = "terminal_negative" =>
                    /\ i = Len(t)
                    /\ pc[c] = "finally"
                    /\ Total(frame[c].sent) >= 1

\* C9: an exception raised in the loop body is caught and logged and never
\* leaves auto_check_otp; the watch it ends issues no further query and
\* sends no further notice (none at all when the response's shape raised
\* it), no other call is touched, and the key is gone when the call returns.
C9_FaultContained ==
    /\ [](\A c \in Calls :
            /\ pc[c] # "crashed"
            /\ Running(c) => frame[c].exc = None
            /\ frame[c].exit = "raised" => frame[c].caught # None
            /\ frame[c].caught # None => (pc[c] = "finally" /\ frame[c].logged = 1))
    /\ [][\A c \in Calls :
            /\ pc[c] = "finally" =>
                  /\ pc'[c] \in {"finally", "returned"}
                  /\ frame'[c] \in {frame[c], NewFrame}
            /\ (frame[c].caught = None /\ frame'[c].caught # None) =>
                  /\ \A d \in Calls \ {c} : pc'[d] = pc[d] /\ frame'[d] = frame[d]
                  /\ active_checks' = active_checks
                  /\ frame'[c].caught = "AttributeError"
                        => frame'[c].sent = frame[c].sent
            /\ (pc[c] = "finally" /\ frame[c].caught # None /\ pc'[c] # "finally") =>
                  /\ pc'[c] = "returned"
                  /\ check_key[c] \notin active_checks']_vars

\* C9 witness: a call ended by an exception has returned and its key is
\* gone, while the watch of another order goes on polling.
C9_Witness ==
    \E c, d \in Calls :
        /\ pc[c] = "returned" /\ outcome[c] = "fault"
        /\ check_key[c] \notin active_checks
        /\ pc[d] = "loop" /\ check_key[d] # check_key[c]
        /\ frame[d].queries > 1

\* C10: error_count is the number of failures received since the last
\* response with another status; such a response leaves it 0 and adds no
\* error notice (the slow notice counts the first run of two failures, the
\* "check manually" notice the run of four), so the watch aborts at the
\* ceiling only on four failures in a row.
C10_ConsecutiveErrors ==
    \A c \in Calls :
        LET t == trace[c]
            f == frame[c]
            n == Len(t)
        IN  /\ f.error_count = ErrorsSinceNonError(t)
            /\ (n > 0 /\ IsNonErrorToken(t[n])) => f.error_count = 0
            /\ f.sent.slow = Count(HasErrorRun(t, 2))
            /\ f.sent.manual = Count(ErrorRunAt(t, n, 4))
            /\ f.exit = "ceiling" => ErrorRunAt(t, n, 4)

\* C10 witness: a watch that received four or more failures, never four in
\* a row, has run out of intervals without the "check manually" notice.
C10_Witness ==
    LET t == trace[Watcher]
    IN  /\ pc[Watcher] = "finally"
        /\ Cardinality({i \in 1..Len(t) : IsErrorToken(t[i])}) >= 4
        /\ frame[Watcher].exit = "exhausted"
        /\ frame[Watcher].sent.manual = 0
        /\ frame[Watcher].error_count = 0

\* C11: a call made while its key is in active_checks returns at once: it
\* leaves active_checks as it is (the key of the running watch stays), it
\* issues no query and sends no notice, and it does nothing afterwards.
C11_DuplicateIsNoOp ==
    [][\A c \in Calls :
          /\ (pc[c] = "idle" /\ check_key'[c] \in active_checks) =>
                /\ pc'[c] = "returned" /\ outcome'[c] = "duplicate"
                /\ active_checks' = active_checks
                /\ frame' = frame
                /\ \A d \in Calls \ {c} : pc'[d] = pc[d]
          /\ (pc[c] = "returned" /\ outcome[c] = "duplicate") =>
                /\ pc'[c] = "returned"
                /\ frame'[c] = frame[c]
                /\ frame[c].queries = 0 /\ Total(frame[c].sent) = 0]_vars

\* C11 witness: a call was refused while the watch that owns the key is
\* polling, and the key is still registered.
C11_Witness ==
    \E c, d \in Calls :
        /\ pc[c] = "returned" /\ outcome[c] = "duplicate"
        /\ pc[d] = "loop" /\ check_key[d] = check_key[c]
        /\ frame[d].queries > 0
        /\ check_key[c] \in active_checks

RECURSIVE SumTo(_, _)
SumTo(seq, n) == IF n = 0 THEN 0 ELSE seq[n] + SumTo(seq, n - 1)

NonDecreasing(seq) ==
    \A i, j \in 1..Len(seq) : i <= j => seq[i] <= seq[j]

\* C12: every status query comes immediately after a suspension of the
\* interval of its round (the first query included), the intervals never
\* decrease, and one watch issues at most as many queries as there are
\* intervals, eight.
C12_SleepBeforeEachQuery ==
    /\ NonDecreasing(intervals)
    /\ Len(intervals) = 8
    /\ \A c \in Calls :
          LET f == frame[c] IN
          /\ f.queries <= Len(intervals)
          /\ ~f.rested
          /\ f.slept = SumTo(intervals, f.queries)
          /\ f.queries > 0 => /\ f.preceded = intervals[f.queries]
                              /\ f.wait = intervals[f.queries]
          /\ pc[c] = "loop" => f.queries = f.idx

\* C12 witness: a watch has issued its eighth query, each after its sleep.
C12_Witness ==
    \E c \in Calls :
        /\ pc[c] = "finally"
        /\ frame[c].queries = Len(intervals)
        /\ frame[c].preceded = intervals[Len(intervals)]
        /\ frame[c].slept = SumTo(intervals, Len(intervals))

\* "Chưa có OTP sau 90s": the seconds the timed-out notice tells the user
\* the watch has waited.
TimedOutNoticeSeconds == 90

\* C13: a watch that runs its schedule to exhaustion has been suspended for
\* at least the 90 seconds its timed-out notice reports (the intervals sum
\* to 90 or more).
C13_ScheduleAtLeast90s ==
    \A c \in Calls :
        frame[c].sent.timeout > 0 => frame[c].slept >= TimedOutNoticeSeconds

\* C14: every failure of the request of a status query (timeout,
\* connection error, HTTP error with 429 or 5xx or another code, any other
\* exception of the request or of the decoding) reaches the loop as a
\* result of status 0 and never as an exception; the round counts it as
\* one more consecutive error and the loop goes on to the next interval,
\* if there is one, until the ceiling of four is reached.
C14_QueryFailureBecomesStatus0 ==
    /\ \A x \in RequestFailures :
          LET q == CheckOrder(Failed(x))
          IN  q.raised = None /\ q.value.isdict /\ q.value.status = 0
    /\ \A c \in Calls :
          LET t == trace[c]
              f == frame[c]
              n == Len(t)
          IN  /\ \A i \in 1..n : t[i].report # "raised"
              /\ f.caught \notin {x.exc : x \in RequestFailures}
              /\ f.exc \notin {x.exc : x \in RequestFailures}
              /\ (n > 0 /\ t[n].report = "transient_error") =>
                    /\ f.queries = n
                    /\ f.error_count = ErrorsSinceNonError(t)
                    /\ f.error_count >= 1
                    /\ (f.error_count < 4 /\ f.caught = None) =>
                          \/ pc[c] = "loop" /\ f.idx = n
                          \/ /\ pc[c] = "finally" /\ f.exit = "exhausted"
                             /\ n = Len(intervals)
                    /\ f.error_count >= 4 => pc[c] = "finally"

\* C14 witness: three status queries in a row have failed, and the watch
\* is at the head of its fourth round.
C14_Witness ==
    \E c \in Calls :
        /\ pc[c] = "loop"
        /\ Len(trace[c]) = 3
        /\ \A i \in 1..3 : trace[c][i].report = "transient_error"
        /\ frame[c].error_count = 3 /\ frame[c].idx = 3

\* The responses at the end of t that are failures or of unexpected shape.
RECURSIVE TrailingFaulty(_)
TrailingFaulty(t) ==
    IF t = <<>> THEN 0
    ELSE IF t[Len(t)].report \in {"transient_error", "unexpected"}
         THEN 1 + TrailingFaulty(SubSeq(t, 1, Len(t) - 1))
         ELSE 0

\* C15: a response of unexpected shape (no explicit error, not pending, not
\* code ready: status missing or other than 0 and 1, no JSON object, data
\* null) is taken as a transient error: it adds one to the count of
\* consecutive errors and does not reset it.
C15_UnexpectedCountsAsError ==
    \A c \in Calls :
        LET t == trace[c]
            f == frame[c]
            n == Len(t)
        IN  (n > 0 /\ t[n].report = "unexpected") =>
                /\ f.error_count = TrailingFaulty(t)
                /\ f.caught # "AttributeError"

\* C16: watches with different keys do not touch each other, whatever the
\* interleaving: a step of a call adds or removes no key but its own in
\* active_checks, changes no other call's locals, position or notices, and
\* a call is refused only when its own key is registered (a registered key
\* of another watch never refuses it).
C16_KeysIndependent ==
    [][\A c \in Calls :
          (pc'[c] # pc[c] \/ frame'[c] # frame[c]) =>
              /\ \A k \in (active_checks \cup active_checks') \ {check_key'[c]} :
                    k \in active_checks <=> k \in active_checks'
              /\ \A d \in Calls \ {c} :
                    /\ frame'[d] = frame[d] /\ pc'[d] = pc[d]
                    /\ check_key'[d] = check_key[d] /\ outcome'[d] = outcome[d]
              /\ (pc[c] = "idle" /\ pc'[c] = "returned")
                    => check_key'[c] \in active_checks
              /\ (pc[c] = "idle" /\ check_key'[c] \notin active_checks)
                    => pc'[c] = "admitted"]_vars

\* C16 witness: a watch has been admitted while another key was registered
\* and has run to its end; the other watch still polls under its key.
C16_Witness ==
    \E c, d \in Calls :
        /\ check_key[c] # check_key[d]
        /\ pc[c] = "returned" /\ outcome[c] \notin {"none", "duplicate"}
        /\ pc[d] = "loop" /\ frame[d].queries > 0
        /\ check_key[d] \in active_checks
        /\ check_key[c] \notin active_checks

\* C17: every admitted watch ends: when each sleep, query and send returns,
\* the call reaches its return with its key popped, whatever the results of
\* its queries, after at most eight rounds of sleep and query.
C17_AdmittedWatchTerminates ==
    /\ [](\A c \in Calls : /\ frame[c].idx <= Len(intervals)
                            /\ frame[c].queries <= Len(intervals))
    /\ \A c \in Calls :
          (pc[c] = "admitted") ~>
              (pc[c] = "returned" /\ outcome[c] # "duplicate"
               /\ check_key[c] \notin active_checks)

\* C17 witness: a watch has returned after all eight rounds, its key gone.
C17_Witness ==
    \E c \in Calls :
        /\ pc[c] = "returned" /\ outcome[c] = "exhausted"
        /\ check_key[c] \notin active_checks

\* C18: process_create_order starts the watcher exactly once for every
\* order the vendor created (status 1), with the order id recorded in
\* user_orders; when no order is created it starts no thread and leaves
\* user_orders and active_checks as they are.
C18_WatcherOncePerOrder ==
    /\ \A o \in OrderIds : orders[o].started = Count(orders[o].created)
    /\ \A chat_id \in ChatIds :
          user_orders[chat_id] # None => orders[user_orders[chat_id]].created
    /\ \A k \in active_checks : \E c \in Calls : check_key[c] = k

\* The closing notices a call has handed to the notifier.
Finals(sent) == sent.success + sent.manual + sent.timeout

\* C19: a watch in which no call of the notifier raises sends exactly one
\* closing notice, one of success, "check manually" and "timed out", and
\* nothing after it: the slow notice can only come before.
C19_ExactlyOneFinalNotice ==
    \A c \in Calls :
        LET f == frame[c] IN
        /\ Finals(f.sent) <= 1
        /\ Finals(f.sent) = 1 => pc[c] = "finally"
        /\ (pc[c] = "finally" /\ f.caught # "ApiException" /\ f.exc = None)
              => Finals(f.sent) = 1

\* C20: when bot.send_message raises on any notice, the slow notice
\* included, the exception is caught and logged once, the notice is not
\* sent again, and the watch is over: the call's only further step is its
\* return with the key popped, with no query and no notice in between.
C20_NotifierFailureEndsWatch ==
    /\ [](\A c \in Calls :
            LET f == frame[c] IN
            /\ f.failed <= 1
            /\ f.failed = 1 =>
                  /\ pc[c] = "finally"
                  /\ f.caught = "ApiException" /\ f.exc = None
                  /\ f.logged = 1
                  /\ \A kind \in DOMAIN f.sent : f.sent[kind] <= 1
                  /\ f.queries = Len(trace[c]))
    /\ [][\A c \in Calls :
            frame[c].failed = 1 =>
                \/ frame'[c] = frame[c] /\ pc'[c] = pc[c]
                \/ /\ pc'[c] = "returned" /\ outcome'[c] = "fault"
                   /\ check_key[c] \notin active_checks'
                   /\ frame'[c] = NewFrame]_vars

\* C20 witness: the second failed query in a row made the watch send the
\* slow notice, and that send raised: the watch stands at its finally
\* clause with nothing else sent.
C20_Witness ==
    \E c \in Calls :
        /\ pc[c] = "finally"
        /\ Len(trace[c]) = 2
        /\ \A i \in 1..2 : trace[c][i].report = "transient_error"
        /\ frame[c].failed = 1
        /\ frame[c].sent.slow = 1 /\ Total(frame[c].sent) = 1
        /\ ~frame[c].notified

\* C21: in every reachable state a key is in active_checks if and only if
\* a polling loop for that key is running, that is, some call with that key
\* stands between its insertion and its pop: no loop runs with its key
\* absent, and no key stays after its loop has exited.
C21_KeyIffLoopRunning ==
    \A chat_id \in ChatIds, order_id \in OrderIds :
        LET key == CheckKey(chat_id, order_id)
        IN  key \in active_checks <=>
                \E c \in Calls : check_key[c] = key /\ Running(c)

====
